---- MODULE Spec2Model ----
(***************************************************************************)
(* Model of the f1-telemetry packet framing and decoding layer:            *)
(*   - the motion decoders of f1-telemetry/src/packet/motion.rs            *)
(*     (MotionData::new, PacketMotionData::new),                           *)
(*   - the non-blocking stream reader of f1-telemetry/src/lib.rs           *)
(*     (Stream::new, Stream::next, Stream::socket).                        *)
(* The header decoder, the dispatcher (parse_packet) and WheelData::new    *)
(* live in files that are not part of the modelled sources; they are       *)
(* modelled from the written specification of the layer.                   *)
(*                                                                         *)
(* A byte is a number in 0..255.  A reader (BufRead over a byte slice) is  *)
(* a record [buf, pos]: the bytes and the number of bytes consumed.        *)
(* An f32 is kept as its IEEE754 bit fields [sign, exp, frac], so that two *)
(* floats are equal exactly when they are bit-for-bit equal.               *)
(***************************************************************************)
EXTENDS Integers, Sequences, FiniteSets, TLC

\* ------------------------------------------------------------ bounds
\* Datagrams that arrive at the socket in one behaviour.
MaxArrivals == 3
\* Capacity of the socket's receive queue (no OS-level overflow is modelled:
\* a datagram arrives only while there is room).
MaxQueue == 2
\* Byte patterns used to fill the decoders' inputs: seeds 0..MaxSeed.
MaxSeed == 1

\* ------------------------------------------------- program constants
\* let mut buf = [0; 2048]
BufSize == 2048
\* Vec::with_capacity(20); for _ in 0..20
NumCars == 20
\* "Size: 1343 bytes"
MotionPacketSize == 1343
\* Width of the common header that precedes every payload.
HeaderSize == 23
\* Packet-type identifier of the motion packet.
MotionPacketId == 0

VARIABLES
    queue,        \* the socket's receive queue: Seq([seq, dgram]), oldest first
    nonblocking,  \* the socket's mode
    pc,           \* "idle" | "blocked" (inside recv) | "panicked"
    last,         \* what the last completed call of Stream::next returned
    obs,          \* what the last completed call's recv reported (recv), the
                  \* datagram it received (seq, dgram), and the call before it
    arrived,      \* datagrams that have arrived so far
    taken,        \* datagrams handed to Stream::next by recv so far
    dIn,          \* decoder harness: the reader handed to the decoder
    dHdr,         \* decoder harness: the header handed to PacketMotionData::new
    dOp,          \* decoder harness: "none" | "MotionData" | "PacketMotionData"
    dOut          \* decoder harness: what the decoder returned

streamVars == <<queue, nonblocking, pc, last, obs, arrived, taken>>
decodeVars == <<dIn, dHdr, dOp, dOut>>
vars == <<queue, nonblocking, pc, last, obs, arrived, taken,
          dIn, dHdr, dOp, dOut>>

Min(a, b) == IF a <= b THEN a ELSE b

\* The element of a one-element set.  { f(x) : x \in {e} } evaluates e once and
\* binds x to its value, which is how a `let x = e;` of the code is written
\* below wherever x is used more than once.
Only(S) == CHOOSE x \in S : TRUE

\* ------------------------------------------------- primitive readers
Remaining(reader) == Len(reader.buf) - reader.pos

\* f32::from_bits(u32::from_le_bytes([b0, b1, b2, b3])): the bit fields of the
\* little-endian word b0 + 2^8 b1 + 2^16 b2 + 2^24 b3.
F32FromLE(b0, b1, b2, b3) ==
    [sign |-> b3 \div 128,
     exp  |-> (b3 % 128) * 2 + (b2 \div 128),
     frac |-> (b2 % 128) * 65536 + b1 * 256 + b0]

\* i16::from_le_bytes([b0, b1]): two's complement of b0 + 2^8 b1.
I16FromLE(b0, b1) ==
    LET u == b0 + 256 * b1
    IN  IF u >= 32768 THEN u - 65536 ELSE u

\* reader.read_f32::<LittleEndian>().unwrap(): read_exact of 4 bytes; with
\* fewer than 4 bytes left read_exact fails (UnexpectedEof) and unwrap panics.
read_f32_unwrap(reader) ==
    IF Remaining(reader) < 4
    THEN [tag |-> "Panic"]
    ELSE [tag |-> "Ok",
          val |-> F32FromLE(reader.buf[reader.pos + 1], reader.buf[reader.pos + 2],
                            reader.buf[reader.pos + 3], reader.buf[reader.pos + 4]),
          reader |-> [buf |-> reader.buf, pos |-> reader.pos + 4]]

\* A decoder that scales and clamps the direction to -32767..32767.
read_i16_clamped(reader) ==
    IF Remaining(reader) < 2
    THEN [tag |-> "Panic"]
    ELSE LET v == I16FromLE(reader.buf[reader.pos + 1], reader.buf[reader.pos + 2])
         IN  [tag |-> "Ok",
              val |-> IF v < -32767 THEN -32767 ELSE v,
              reader |-> [buf |-> reader.buf, pos |-> reader.pos + 2]]

\* reader.read_i16::<LittleEndian>().unwrap()
read_i16_unwrap(reader) ==
    IF Remaining(reader) < 2
    THEN [tag |-> "Panic"]
    ELSE [tag |-> "Ok",
          val |-> I16FromLE(reader.buf[reader.pos + 1], reader.buf[reader.pos + 2]),
          reader |-> [buf |-> reader.buf, pos |-> reader.pos + 2]]

\* One `let x = reader.read_..().unwrap();` statement.
ReadField(reader, kind) ==
    IF kind = "f32" THEN read_f32_unwrap(reader) ELSE read_i16_unwrap(reader)

\* A sequence of `let x = reader.read_..().unwrap();` statements, one per kind,
\* executed in order on the same reader; the first panic ends the function.
\* The statements are run as their first half, then their second half from
\* where the first half left the reader.
RECURSIVE ReadFields(_, _)
ReadFields(reader, kinds) ==
    IF Len(kinds) = 0
    THEN [tag |-> "Ok", vals |-> <<>>, reader |-> reader]
    ELSE IF Len(kinds) = 1
    THEN Only({ IF r.tag = "Panic"
                THEN [tag |-> "Panic"]
                ELSE [tag |-> "Ok", vals |-> <<r.val>>, reader |-> r.reader] :
                r \in { ReadField(reader, kinds[1]) } })
    ELSE Only({
        IF a.tag = "Panic"
        THEN [tag |-> "Panic"]
        ELSE Only({ IF b.tag = "Panic"
                    THEN [tag |-> "Panic"]
                    ELSE [tag |-> "Ok", vals |-> a.vals \o b.vals, reader |-> b.reader] :
                    b \in { ReadFields(a.reader,
                                       SubSeq(kinds, Len(kinds) \div 2 + 1, Len(kinds))) } }) :
        a \in { ReadFields(reader, SubSeq(kinds, 1, Len(kinds) \div 2)) } })

\* ------------------------------------------------------- MotionData
\* A layout in which world_forward_dir_x is read as a 4-byte field.
MotionDataLayoutWide ==
    <<"f32", "f32", "f32", "f32", "f32", "f32",
      "f32", "i16", "i16", "i16", "i16", "i16",
      "f32", "f32", "f32", "f32", "f32", "f32">>

\* The 18 reads of MotionData::new, in statement order.
MotionDataLayout ==
    <<"f32", "f32", "f32", "f32", "f32", "f32",
      "i16", "i16", "i16", "i16", "i16", "i16",
      "f32", "f32", "f32", "f32", "f32", "f32">>

\* MotionData::new: Ok(MotionData {..}) after the 18 reads, or a panic; it has
\* no statement that returns Err.
MotionData_new(reader) ==
    Only({
        IF r.tag = "Panic"
        THEN [tag |-> "Panic"]
        ELSE [tag |-> "Ok",
              val |-> [world_position_x     |-> r.vals[1],
                       world_position_y     |-> r.vals[2],
                       world_position_z     |-> r.vals[3],
                       world_velocity_x     |-> r.vals[4],
                       world_velocity_y     |-> r.vals[5],
                       world_velocity_z     |-> r.vals[6],
                       world_forward_dir_x  |-> r.vals[7],
                       world_forward_dir_y  |-> r.vals[8],
                       world_forward_dir_z  |-> r.vals[9],
                       world_right_dir_x    |-> r.vals[10],
                       world_right_dir_y    |-> r.vals[11],
                       world_right_dir_z    |-> r.vals[12],
                       g_force_lateral      |-> r.vals[13],
                       g_force_longitudinal |-> r.vals[14],
                       g_force_vertical     |-> r.vals[15],
                       yaw                  |-> r.vals[16],
                       pitch                |-> r.vals[17],
                       roll                 |-> r.vals[18]],
              reader |-> r.reader] :
        r \in { ReadFields(reader, MotionDataLayout) } })

\* ------------------------------------------------- PacketMotionData
\* A loop that inserts each record at the front of the vector.
RECURSIVE ReadMotionLoopFront(_, _)
ReadMotionLoopFront(reader, n) ==
    IF n = 0
    THEN [tag |-> "Ok", motion_data |-> <<>>, reader |-> reader]
    ELSE IF n = 1
    THEN Only({ IF md.tag # "Ok"
                THEN [tag |-> md.tag]
                ELSE [tag |-> "Ok", motion_data |-> <<md.val>>, reader |-> md.reader] :
                md \in { MotionData_new(reader) } })
    ELSE Only({
        IF a.tag # "Ok"
        THEN [tag |-> a.tag]
        ELSE Only({ IF b.tag # "Ok"
                    THEN [tag |-> b.tag]
                    ELSE [tag |-> "Ok",
                          motion_data |-> b.motion_data \o a.motion_data,
                          reader |-> b.reader] :
                    b \in { ReadMotionLoopFront(a.reader, n - n \div 2) } }) :
        a \in { ReadMotionLoopFront(reader, n \div 2) } })

\* for _ in 0..n { let md = MotionData::new(&mut reader)?; motion_data.push(md); }
\* on an empty vector: every iteration decodes one record from where the one
\* before left the reader and pushes it; an iteration that does not return Ok
\* ends the function.  The n iterations are run as the first n/2 of them, then
\* the others from where those left the reader.
RECURSIVE ReadMotionLoop(_, _)
ReadMotionLoop(reader, n) ==
    IF n = 0
    THEN [tag |-> "Ok", motion_data |-> <<>>, reader |-> reader]
    ELSE IF n = 1
    THEN Only({ IF md.tag # "Ok"
                THEN [tag |-> md.tag]
                ELSE [tag |-> "Ok", motion_data |-> <<md.val>>, reader |-> md.reader] :
                md \in { MotionData_new(reader) } })
    ELSE Only({
        IF a.tag # "Ok"
        THEN [tag |-> a.tag]
        ELSE Only({ IF b.tag # "Ok"
                    THEN [tag |-> b.tag]
                    ELSE [tag |-> "Ok",
                          motion_data |-> a.motion_data \o b.motion_data,
                          reader |-> b.reader] :
                    b \in { ReadMotionLoop(a.reader, n - n \div 2) } }) :
        a \in { ReadMotionLoop(reader, n \div 2) } })

\* WheelData::new(rear_left, rear_right, front_left, front_right)
WheelData_new(a, b, c, d) ==
    [rear_left |-> a, rear_right |-> b, front_left |-> c, front_right |-> d]

\* A call that passes the third and fourth value read for the rear wheels.
WheelGroupSwapped(vals, k) ==
    WheelData_new(vals[4 * k + 3], vals[4 * k + 4], vals[4 * k + 1], vals[4 * k + 2])

\* WheelData::new(read, read, read, read): the arguments are evaluated left to
\* right, so the k-th group (k = 0..4) gets the reads 4k+1 .. 4k+4 in order.
WheelGroup(vals, k) ==
    WheelData_new(vals[4 * k + 1], vals[4 * k + 2], vals[4 * k + 3], vals[4 * k + 4])

\* The 5 x 4 wheel reads and the 10 scalar reads that follow the records.
ExtrasLayout == [i \in 1..30 |-> "f32"]

\* The struct PacketMotionData::new builds from the header it was given, the
\* vector the loop filled and the 30 values read after it.
MotionPacket(header, motion_data, x) ==
    [header                  |-> header,
     motion_data             |-> motion_data,
     suspension_position     |-> WheelGroup(x, 0),
     suspension_velocity     |-> WheelGroup(x, 1),
     suspension_acceleration |-> WheelGroup(x, 2),
     wheel_speed             |-> WheelGroup(x, 3),
     wheel_slip              |-> WheelGroup(x, 4),
     local_velocity_x        |-> x[21],
     local_velocity_y        |-> x[22],
     local_velocity_z        |-> x[23],
     angular_velocity_x      |-> x[24],
     angular_velocity_y      |-> x[25],
     angular_velocity_z      |-> x[26],
     angular_acceleration_x  |-> x[27],
     angular_acceleration_y  |-> x[28],
     angular_acceleration_z  |-> x[29],
     front_wheels_angle      |-> x[30]]

\* PacketMotionData::new: the loop over the cars (`?` hands an Err of
\* MotionData::new to the caller), the reads of the extras, Ok(..).
PacketMotionData_new(reader, header) ==
    Only({
        IF loop.tag # "Ok"
        THEN [tag |-> loop.tag]
        ELSE Only({
            IF x.tag = "Panic"
            THEN [tag |-> "Panic"]
            ELSE [tag |-> "Ok",
                  val |-> MotionPacket(header, loop.motion_data, x.vals),
                  reader |-> x.reader] :
            x \in { ReadFields(loop.reader, ExtrasLayout) } }) :
        loop \in { ReadMotionLoop(reader, NumCars) } })

\* ------------------------------------------- header and dispatcher
\* Format versions whose field layout the decoders know.
SupportedFormats == {2019}

U16FromLE(b0, b1) == b0 + 256 * b1

\* Header Decoder: reads the fixed-width header at the cursor in the order
\* format version, game versions, packet type id, session uid, session time,
\* frame id, player indices, and advances the cursor past it.  Wide integers
\* are kept as their bytes, most significant first.
PacketHeader_new(reader) ==
    IF Remaining(reader) < HeaderSize
    THEN [tag |-> "Err", err |-> "TruncatedData"]
    ELSE LET B(i) == reader.buf[reader.pos + i]
         IN  IF U16FromLE(B(1), B(2)) \notin SupportedFormats
             THEN [tag |-> "Err", err |-> "UnsupportedFormatVersion"]
             ELSE [tag |-> "Ok",
                   val |-> [packet_format |-> U16FromLE(B(1), B(2)),
                            game_major_version |-> B(3),
                            game_minor_version |-> B(4),
                            packet_id |-> B(5),
                            session_uid |-> <<B(13), B(12), B(11), B(10),
                                              B(9), B(8), B(7), B(6)>>,
                            session_time |-> F32FromLE(B(14), B(15), B(16), B(17)),
                            frame_identifier |-> <<B(21), B(20), B(19), B(18)>>,
                            player_car_index |-> B(22),
                            secondary_player_car_index |-> B(23)],
                   reader |-> [buf |-> reader.buf, pos |-> reader.pos + HeaderSize]]

\* parse_packet(len, &buf): a cursor over the len valid bytes of the buffer,
\* the header decoder, then the decoder registered for the header's packet
\* type.  Only the motion decoder is modelled; the identifiers used by the
\* inputs below are the motion identifier and one that has no decoder.
parse_packet(len, buf) ==
    Only({
        IF h.tag = "Err"
        THEN h
        ELSE IF h.val.packet_id = MotionPacketId
        THEN Only({ IF p.tag = "Ok"
                    THEN [tag |-> "Ok",
                          packet |-> [kind |-> "Motion", data |-> p.val]]
                    ELSE p :
                    p \in { PacketMotionData_new(h.reader, h.val) } })
        ELSE [tag |-> "Err", err |-> "UnknownPacketType"] :
        h \in { PacketHeader_new([buf |-> SubSeq(buf, 1, len), pos |-> 0]) } })

\* ---------------------------------------------------------- inputs
\* The byte at offset o of the test pattern `seed`: every record of a packet
\* differs from the others.
Pattern(seed, o) == (seed * 37 + o * 7 + (o \div 60) * 13) % 256

PatternBytes(len, seed) == [i \in 1..len |-> Pattern(seed, i - 1)]

\* bytes with `patch` written at offset `at` (what falls outside is dropped).
Overlay(bytes, at, patch) ==
    [i \in 1..Len(bytes) |->
        IF i > at /\ i <= at + Len(patch) THEN patch[i - at] ELSE bytes[i]]

\* The bytes of the datagram d = [fmt, id, len, seed]: `len` pattern bytes
\* whose header declares format `fmt` and packet type `id`.
Wire(d) ==
    Overlay(Overlay(PatternBytes(d.len, d.seed), 0, <<d.fmt % 256, d.fmt \div 256>>),
            4, <<d.id>>)

\* The datagrams the environment sends.  A queued datagram is kept as its
\* description d; its bytes are Wire(d).
Datagrams ==
    { [fmt |-> 2019, id |-> MotionPacketId, len |-> MotionPacketSize, seed |-> 0],
      [fmt |-> 2019, id |-> MotionPacketId, len |-> MotionPacketSize, seed |-> 1],
      [fmt |-> 2019, id |-> MotionPacketId, len |-> MotionPacketSize + 1, seed |-> 0],
      [fmt |-> 2019, id |-> MotionPacketId, len |-> 700, seed |-> 0],
      [fmt |-> 2019, id |-> MotionPacketId, len |-> 10, seed |-> 0],
      [fmt |-> 2019, id |-> 255, len |-> MotionPacketSize, seed |-> 0],
      [fmt |-> 2018, id |-> MotionPacketId, len |-> MotionPacketSize, seed |-> 0] }

\* ----------------------------------------------------------- Stream
\* let mut buf = [0; 2048];
FreshBuf == [i \in 1..BufSize |-> 0]

\* A receive that leaves the datagram in the queue.
SocketRecvPeek(q) == [dgram |-> Head(q), rest |-> q]

\* A receive that hands out the newest datagram.
SocketRecvNewest(q) == [dgram |-> q[Len(q)], rest |-> SubSeq(q, 1, Len(q) - 1)]

\* self.socket.recv(..) on a non-empty queue: the oldest datagram leaves the
\* queue.
SocketRecv(q) == [dgram |-> Head(q), rest |-> Tail(q)]

\* recv(&mut buf): the datagram is copied to the front of the buffer (cut to
\* the buffer's size); the rest of the buffer keeps what it held.
RecvInto(buf, data) ==
    LET n == Min(Len(data), BufSize)
    IN  [len |-> n,
         buf |-> [i \in 1..BufSize |-> IF i <= n THEN data[i] ELSE buf[i]]]

\* Ok(len) => match parse_packet(len, &buf) { Ok(p) => Ok(Some(p)), Err(e) => Err(e) }
\* A panic inside parse_packet unwinds through Stream::next.
Outcome(pr) ==
    IF pr.tag = "Ok" THEN [tag |-> "OkSome", packet |-> pr.packet]
    ELSE IF pr.tag = "Err" THEN [tag |-> "Err", err |-> pr.err]
    ELSE [tag |-> "Panic"]

\* What Stream::next returns for a datagram with these bytes.
NextOnDatagram(data) ==
    Only({ Outcome(parse_packet(rx.len, rx.buf)) : rx \in { RecvInto(FreshBuf, data) } })

\* NextOnDatagram(Wire(d)) for every datagram d the environment sends,
\* evaluated once per d.
NextOnWire == [d \in Datagrams |-> NextOnDatagram(Wire(d))]

\* recv returns Err(e) with e.kind() != WouldBlock: the error is reported and
\* nothing is taken from the queue.
RecvFails ==
    /\ last' = [tag |-> "Err", err |-> "Error reading from socket"]
    /\ obs' = [recv |-> "Other", seq |-> 0, dgram |-> <<>>,
               prev |-> [tag |-> last.tag, seq |-> obs.seq]]
    /\ pc' = "idle"
    /\ UNCHANGED <<queue, nonblocking, arrived, taken>>

\* recv returns Ok(len): one datagram is received into a fresh buffer and parsed.
RecvData ==
    \E r \in { SocketRecv(queue) } :
      \E out \in { NextOnWire[r.dgram.dgram] } :
        /\ last' = out
        /\ obs' = [recv |-> "Data", seq |-> r.dgram.seq, dgram |-> r.dgram.dgram,
                   prev |-> [tag |-> last.tag, seq |-> obs.seq]]
        /\ queue' = r.rest
        /\ taken' = taken + 1
        /\ pc' = IF out.tag = "Panic" THEN "panicked" ELSE "idle"
        /\ UNCHANGED <<nonblocking, arrived>>

\* recv returns Err(e) with e.kind() == WouldBlock => Ok(None)
RecvWouldBlock ==
    /\ last' = [tag |-> "OkNone"]
    /\ obs' = [recv |-> "WouldBlock", seq |-> 0, dgram |-> <<>>,
               prev |-> [tag |-> last.tag, seq |-> obs.seq]]
    /\ UNCHANGED <<queue, nonblocking, pc, arrived, taken>>

\* Stream::next, from the call to its return.  The receive fails with a socket
\* error, or a datagram is pending, or none is: then a non-blocking socket
\* reports WouldBlock and a blocking one keeps the call inside recv.
Stream_next ==
    /\ pc = "idle"
    /\ \/ RecvFails
       \/ queue # <<>> /\ RecvData
       \/ queue = <<>> /\ nonblocking /\ RecvWouldBlock
       \/ /\ queue = <<>> /\ ~nonblocking
          /\ pc' = "blocked"
          /\ UNCHANGED <<queue, nonblocking, last, obs, arrived, taken>>
    /\ UNCHANGED decodeVars

\* The recv of a blocked call returns once the socket has something to report.
Stream_next_resume ==
    /\ pc = "blocked"
    /\ \/ RecvFails
       \/ queue # <<>> /\ RecvData
    /\ UNCHANGED decodeVars

\* stream.socket().set_nonblocking(b): Stream::socket hands out &UdpSocket, and
\* UdpSocket::set_nonblocking takes &self.
Socket_set_nonblocking(b) ==
    /\ pc = "idle"
    /\ nonblocking' = b
    /\ UNCHANGED <<queue, pc, last, obs, arrived, taken>>
    /\ UNCHANGED decodeVars

\* The environment: a datagram arrives and is queued behind the unread ones.
Arrive(d) ==
    /\ pc # "panicked"
    /\ arrived < MaxArrivals
    /\ Len(queue) < MaxQueue
    /\ arrived' = arrived + 1
    /\ queue' = Append(queue, [seq |-> arrived + 1, dgram |-> d])
    /\ UNCHANGED <<nonblocking, pc, last, obs, taken>>
    /\ UNCHANGED decodeVars

HeaderA ==
    [packet_format |-> 2019, game_major_version |-> 1, game_minor_version |-> 0,
     packet_id |-> MotionPacketId, session_uid |-> <<0, 0, 0, 0, 0, 0, 0, 0>>,
     session_time |-> F32FromLE(0, 0, 0, 0), frame_identifier |-> <<0, 0, 0, 0>>,
     player_car_index |-> 0, secondary_player_car_index |-> 255]

HeaderB ==
    [packet_format |-> 2019, game_major_version |-> 1, game_minor_version |-> 22,
     packet_id |-> MotionPacketId, session_uid |-> <<1, 2, 3, 4, 5, 6, 7, 8>>,
     session_time |-> F32FromLE(0, 0, 128, 63), frame_identifier |-> <<0, 0, 1, 44>>,
     player_car_index |-> 19, secondary_player_car_index |-> 255]

\* Stream::new: the socket is bound and set_nonblocking(true); nothing has
\* arrived and next has not been called.
StreamInit ==
    /\ queue = <<>>
    /\ nonblocking = TRUE
    /\ pc = "idle"
    /\ last = [tag |-> "NoCall"]
    /\ obs = [recv |-> "None", seq |-> 0, dgram |-> <<>>,
              prev |-> [tag |-> "NoCall", seq |-> 0]]
    /\ arrived = 0
    /\ taken = 0

Init ==
    /\ StreamInit
    /\ dIn = [buf |-> <<>>, pos |-> 0]
    /\ dHdr = HeaderA
    /\ dOp = "none"
    /\ dOut = [tag |-> "None"]

Next ==
    \/ \E d \in Datagrams : Arrive(d)
    \/ Stream_next
    \/ Stream_next_resume
    \/ \E b \in BOOLEAN : Socket_set_nonblocking(b)

Spec == Init /\ [][Next]_vars

\* -------------------------------------------------- decoder harness
\* The decoders as pure functions: a reader drawn from the inputs below, one
\* call of MotionData::new or PacketMotionData::new on it.

\* Bytes the reader holds past its position.
DecodeLens == {0, 3, 59, 60, 61, 1319, 1320, 1321}

\* Bytes written over the pattern, at an offset from the reader's position:
\* the six directions of record 0 (-32768, 32767, -32767, -1, 0, 4660), the
\* same in record 19, and 1.0, 2.0, 3.0, 4.0 in each of the five wheel groups.
DirBytes == <<0, 128, 255, 127, 1, 128, 255, 255, 0, 0, 52, 18>>

WheelBytes == <<0, 0, 128, 63, 0, 0, 0, 64, 0, 0, 64, 64, 0, 0, 128, 64>>

Patches ==
    { [at |-> 0, bytes |-> <<>>],
      [at |-> 24, bytes |-> DirBytes],
      [at |-> 1164, bytes |-> DirBytes] }
    \cup { [at |-> 1200 + 16 * k, bytes |-> WheelBytes] : k \in 0..4 }

DecodeReaders ==
    { [buf |-> SubSeq(Overlay(PatternBytes(p + n, seed), p + patch.at, patch.bytes),
                      1, p + n),
       pos |-> p] :
      p \in {0, HeaderSize}, n \in DecodeLens, seed \in 0..MaxSeed, patch \in Patches }

DecodeInit ==
    /\ StreamInit
    /\ dIn \in DecodeReaders
    /\ dHdr \in {HeaderA, HeaderB}
    /\ dOp = "none"
    /\ dOut = [tag |-> "None"]

Decode_MotionData ==
    /\ dOp = "none"
    /\ dOp' = "MotionData"
    /\ dOut' = MotionData_new(dIn)
    /\ UNCHANGED <<dIn, dHdr>>
    /\ UNCHANGED streamVars

Decode_PacketMotionData ==
    /\ dOp = "none"
    /\ dOp' = "PacketMotionData"
    /\ dOut' = PacketMotionData_new(dIn, dHdr)
    /\ UNCHANGED <<dIn, dHdr>>
    /\ UNCHANGED streamVars

DecodeNext ==
    \/ Decode_MotionData
    \/ Decode_PacketMotionData

DecodeSpec == DecodeInit /\ [][DecodeNext]_vars

\* ------------------------------------------------------------ claims

\* C1: whenever the reader holds fewer bytes than the fixed layout needs (60
\* for MotionData::new, 1320 for PacketMotionData::new) the decoder returns
\* the error TruncatedData: no success, no default values, no panic.
C1_ShortReaderIsTruncatedData ==
    /\ (dOp = "MotionData" /\ Remaining(dIn) < 60) =>
           dOut = [tag |-> "Err", err |-> "TruncatedData"]
    /\ (dOp = "PacketMotionData" /\ Remaining(dIn) < 1320) =>
           dOut = [tag |-> "Err", err |-> "TruncatedData"]

\* C2: every call of Stream::next ends in one of three outcomes fixed by its
\* one receive: Ok(None) exactly when the receive reports WouldBlock, Err when
\* the receive fails otherwise or the datagram does not decode, Ok(Some(..))
\* only for a received datagram that decoded; a received datagram never gives
\* Ok(None) and a socket failure never gives a packet.
C2_ThreeOutcomes ==
    /\ last.tag \in {"NoCall", "OkNone", "OkSome", "Err"}
    /\ (last.tag = "OkNone") <=> (obs.recv = "WouldBlock")
    /\ (obs.recv = "Other") => (last.tag = "Err")
    /\ (obs.recv = "Data") => (last.tag \in {"OkSome", "Err"})
    /\ (last.tag = "OkSome") => (obs.recv = "Data")

\* C3: Stream::next never blocks: in every state reached through Stream::new,
\* calls of next and uses of the socket reference of Stream::socket, the
\* socket is in non-blocking mode and no call is waiting inside recv.
C3_NeverBlocks ==
    /\ nonblocking
    /\ pc # "blocked"

CallReturns == obs' # obs \/ last' # last \/ taken' # taken

\* Datagrams are handed out in arrival order, one per receiving call, none
\* skipped or duplicated: the queue holds the datagrams taken+1 .. arrived in
\* order, and the k-th receiving call got the k-th datagram.
C5_InOrder ==
    /\ Len(queue') >= Len(queue) - 1
    /\ (taken' # taken) =>
           /\ taken' = taken + 1
           /\ queue # <<>>
           /\ queue' = Tail(queue)
           /\ obs'.seq = Head(queue).seq
           /\ obs'.dgram = Head(queue).dgram
    /\ taken' + Len(queue') = arrived'
    /\ \A i \in 1..Len(queue') : queue'[i].seq = taken' + i
    /\ (obs'.recv = "Data") => (obs'.seq = taken')

\* C5 as stated: a call of Stream::next takes exactly one datagram, the oldest,
\* when the queue is not empty and none when it is empty; the k-th call that
\* receives gets the k-th datagram that arrived.
C5_OnePerCall ==
    [][ /\ C5_InOrder
        /\ CallReturns =>
              IF queue # <<>>
              THEN queue' = Tail(queue) /\ taken' = taken + 1
              ELSE queue' = queue /\ taken' = taken ]_vars

\* C5 as amended: as C5_OnePerCall, but a call whose receive fails with a
\* socket error takes nothing, whatever the queue holds.
C5_OnePerSuccessfulReceive ==
    [][ /\ C5_InOrder
        /\ CallReturns =>
              IF queue # <<>> /\ obs'.recv # "Other"
              THEN queue' = Tail(queue) /\ taken' = taken + 1
              ELSE queue' = queue /\ taken' = taken ]_vars

\* C5's case: two datagrams, two calls, one packet from each call, in order.
C5_Witness ==
    /\ taken = 2
    /\ obs.prev = [tag |-> "OkSome", seq |-> 1]
    /\ obs.recv = "Data"
    /\ obs.seq = 2
    /\ last.tag = "OkSome"

\* C6: a datagram of the motion type is decoded only when its length is the
\* documented 1343 bytes; a longer or a shorter one makes Stream::next return
\* Err.
C6_MotionLengthIsExact ==
    (/\ obs.recv = "Data"
     /\ obs.dgram.fmt \in SupportedFormats
     /\ obs.dgram.id = MotionPacketId
     /\ obs.dgram.len # MotionPacketSize) => (last.tag = "Err")

\* The reader positioned on record i of dIn, holding that record only.
RecordSlice(i) ==
    [buf |-> SubSeq(dIn.buf, dIn.pos + 60 * i + 1, dIn.pos + 60 * i + 60), pos |-> 0]

\* C7: a successful PacketMotionData::new returns exactly 20 records, record
\* i decoded from the payload bytes [60 i, 60 i + 60), in byte order, and the
\* header it was given.
C7_TwentyRecordsInOrder ==
    (dOp = "PacketMotionData" /\ dOut.tag = "Ok") =>
        /\ Len(dOut.val.motion_data) = 20
        /\ \A i \in 0..19 :
               dOut.val.motion_data[i + 1] = MotionData_new(RecordSlice(i)).val
        /\ dOut.val.header = dHdr

\* C7's case: a full payload behind a header, decoded; its records differ.
C7_Witness ==
    /\ dOp = "PacketMotionData"
    /\ dOut.tag = "Ok"
    /\ dIn.pos = HeaderSize
    /\ dHdr = HeaderB
    /\ dOut.val.motion_data[1] # dOut.val.motion_data[2]
    /\ dOut.val.motion_data[1] # dOut.val.motion_data[20]

\* The f32 at offset off from the position of reader.
F32At(reader, off) ==
    F32FromLE(reader.buf[reader.pos + off + 1], reader.buf[reader.pos + off + 2],
              reader.buf[reader.pos + off + 3], reader.buf[reader.pos + off + 4])

WheelGroups(p) ==
    <<p.suspension_position, p.suspension_velocity, p.suspension_acceleration,
      p.wheel_speed, p.wheel_slip>>

\* 1.0, 2.0, 3.0, 4.0 as f32.
OneToFour ==
    [rear_left   |-> [sign |-> 0, exp |-> 127, frac |-> 0],
     rear_right  |-> [sign |-> 0, exp |-> 128, frac |-> 0],
     front_left  |-> [sign |-> 0, exp |-> 128, frac |-> 4194304],
     front_right |-> [sign |-> 0, exp |-> 129, frac |-> 0]]

\* C8: the five wheel groups follow the 20 records in the order suspension
\* position, velocity, acceleration, wheel speed, wheel slip, and each keeps
\* the wire order RL, RR, FL, FR: group k is the four floats at payload
\* offsets 1200 + 16 k, + 4, + 8, + 12; bytes of 1.0, 2.0, 3.0, 4.0 give
\* RL = 1.0, RR = 2.0, FL = 3.0, FR = 4.0.
C8_WheelOrder ==
    (dOp = "PacketMotionData" /\ dOut.tag = "Ok") =>
        \A k \in 0..4 :
            /\ WheelGroups(dOut.val)[k + 1] =
                   [rear_left   |-> F32At(dIn, 1200 + 16 * k),
                    rear_right  |-> F32At(dIn, 1200 + 16 * k + 4),
                    front_left  |-> F32At(dIn, 1200 + 16 * k + 8),
                    front_right |-> F32At(dIn, 1200 + 16 * k + 12)]
            /\ (SubSeq(dIn.buf, dIn.pos + 1200 + 16 * k + 1,
                       dIn.pos + 1200 + 16 * k + 16) = WheelBytes)
                   => (WheelGroups(dOut.val)[k + 1] = OneToFour)

\* C8's case: the wheel speeds are sent as 1.0, 2.0, 3.0, 4.0 and decoded.
C8_Witness ==
    /\ dOp = "PacketMotionData"
    /\ dOut.tag = "Ok"
    /\ dOut.val.wheel_speed = OneToFour
    /\ dOut.val.wheel_slip # OneToFour

Directions(md) ==
    <<md.world_forward_dir_x, md.world_forward_dir_y, md.world_forward_dir_z,
      md.world_right_dir_x, md.world_right_dir_y, md.world_right_dir_z>>

\* v is a signed 16-bit integer whose two's complement bytes, low byte first,
\* are the two bytes at offset off from the position of reader.
IsRawI16At(reader, off, v) ==
    /\ v \in -32768..32767
    /\ reader.buf[reader.pos + off + 1] = v % 256
    /\ reader.buf[reader.pos + off + 2] = ((v - (v % 256)) \div 256) % 256

\* C9: MotionData::new keeps the six direction components as the raw signed
\* 16-bit little-endian integers at record offsets 24, 26, 28, 30, 32, 34,
\* over the whole range -32768..32767, unscaled and unclamped.
C9_RawDirections ==
    /\ (dOp = "MotionData" /\ dOut.tag = "Ok") =>
           \A k \in 1..6 : IsRawI16At(dIn, 22 + 2 * k, Directions(dOut.val)[k])
    /\ (dOp = "PacketMotionData" /\ dOut.tag = "Ok") =>
           \A i \in 0..19 : \A k \in 1..6 :
               IsRawI16At(dIn, 60 * i + 22 + 2 * k,
                          Directions(dOut.val.motion_data[i + 1])[k])

\* C9's case: a record whose directions are -32768, 32767, -32767, -1, 0, 4660.
C9_Witness ==
    /\ dOp = "MotionData"
    /\ dOut.tag = "Ok"
    /\ Directions(dOut.val) = <<-32768, 32767, -32767, -1, 0, 4660>>

\* C10: the reads are unconditional and positional: MotionData::new succeeds
\* exactly when 60 bytes are left and then advances the reader by 60,
\* PacketMotionData::new exactly when 1320 are left and then advances it by
\* 1320, whatever the bytes are; the bytes themselves are left alone.
C10_FixedAdvance ==
    /\ (dOp = "MotionData") =>
           /\ (dOut.tag = "Ok") <=> (Remaining(dIn) >= 60)
           /\ (dOut.tag = "Ok") =>
                  dOut.reader = [buf |-> dIn.buf, pos |-> dIn.pos + 60]
    /\ (dOp = "PacketMotionData") =>
           /\ (dOut.tag = "Ok") <=> (Remaining(dIn) >= 1320)
           /\ (dOut.tag = "Ok") =>
                  dOut.reader = [buf |-> dIn.buf, pos |-> dIn.pos + 1320]

\* C10's case: the payload of a 1343-byte motion packet, read from behind its
\* header to the last byte.
C10_Witness ==
    /\ dOp = "PacketMotionData"
    /\ dOut.tag = "Ok"
    /\ dIn.pos = HeaderSize
    /\ dOut.reader.pos = MotionPacketSize
    /\ Remaining(dOut.reader) = 0

====
